---- MODULE Spec2Model ----
(***************************************************************************)
(* Session registry (SessionService), socket provider (BaileysProvider)    *)
(* and REST provider (MetaProvider) of baileys-server-pro, as a state      *)
(* machine.  One action per handler; an async function is cut at the       *)
(* awaits that really suspend (network / file I/O, timers).  An await of   *)
(* an already settled promise resumes in the same microtask phase and is   *)
(* folded into the step that settles it.                                   *)
(***************************************************************************)
EXTENDS Integers, Sequences, FiniteSets, TLC

\* ---------------------------------------------------------------- bounds
NumIds    == 2      \* session ids 1..NumIds
MaxProv   == 3      \* provider objects ever constructed
MaxCalls  == 2      \* registry calls suspended at the same time
MaxSends  == 3      \* outbound send requests
MaxEvents == 2      \* inbound transport events

\* ------------------------------------------------------ program constants
maxRetry          == 5
maxWebhookRetries == 3
baseDelay         == 5000      \* ms, first reconnection delay
jitterMax         == 2000      \* ms, WhatsappSession.startReconnecting
capDelay          == 300000    \* ms, WhatsappSession.startReconnecting

\* ----------------------------------------------------------------- values
Ids      == 1..NumIds
ProvIds  == 1..MaxProv
NoUrl    == "nourl"       \* null / undefined webhook
Undef    == "undef"       \* argument not supplied (undefined)
NoCfg    == "nocfg"       \* metaConfig null
BadCfg   == "badcfg"      \* metaConfig object lacking phoneId or token
Urls     == {"u1", "u2"}
Cfgs     == {"m1", "m2"}  \* metaConfig with phoneId and token
NoMeta   == [webhookUrl |-> "absent", metaConfig |-> "absent"]
NoCall   == [op |-> "none", id |-> 0, ret |-> 0, how |-> "none"]

VARIABLES
    prov,       \* provider objects: ProvIds -> record (kind "free" = not constructed)
    nextProv,   \* next provider object to construct
    sessions,   \* SessionService.sessions: Ids -> provider object, 0 = absent
    store,      \* SessionRepository metadata: Ids -> record or NoMeta
    calls,      \* registry calls suspended at an await
    nextMsg,    \* next outbound send request number
    nextEv,     \* next inbound event number
    hist,       \* history: what was sent, delivered, alerted
    lastOp      \* history: the registry call that returned last

vars == <<prov, nextProv, sessions, store, calls, nextMsg, nextEv, hist, lastOp>>

\* ------------------------------------------------------------ constructors
Free ==
    [kind |-> "free", sid |-> 0, status |-> "none", qr |-> FALSE,
     retryCount |-> 0, webhookUrl |-> NoUrl, config |-> NoCfg,
     messageQueue |-> <<>>, isProcessingQueue |-> FALSE,
     webhookQueue |-> <<>>, isProcessingWebhookQueue |-> FALSE,
     sock |-> "none", timers |-> 0, delay |-> 0, inits |-> 0,
     outExec |-> <<>>, inExec |-> <<>>, whTimers |-> 0]

BaileysProvider(id, wh) ==
    [Free EXCEPT !.kind = "baileys", !.sid = id, !.status = "starting",
                 !.webhookUrl = wh]

\* (variant: the constructor leaves the status at starting)
MetaProvider_Starting(id, wh, cfg) ==
    [Free EXCEPT !.kind = "meta", !.sid = id, !.status = "starting",
                 !.webhookUrl = wh, !.config = cfg]

\* new MetaProvider(sessionId, webhookUrl, metaConfig)
MetaProvider(id, wh, cfg) ==
    [Free EXCEPT !.kind = "meta", !.sid = id, !.status = "open",
                 !.webhookUrl = wh, !.config = cfg]

\* (variant: any metaConfig object selects the REST provider)
UsableMeta_AnyObject(cfg) == cfg \in Cfgs \cup {BadCfg}

\* metaConfig && metaConfig.phoneId && metaConfig.token
UsableMeta(cfg) == cfg \in Cfgs

\* SessionRepository.saveMetadata: merge the partial record into the stored one
SaveMetadata(st, id, wh, cfg) ==
    [st EXCEPT ![id] = [webhookUrl |-> wh, metaConfig |-> cfg]]

\* SessionRepository.getMetadata: is there a record for the id?
HasMetadata(st, id) == st[id] # NoMeta

\* SessionRepository.deleteSession: remove the record tree
RemoveMetadata(st, id) == [st EXCEPT ![id] = NoMeta]

\* ------------------------------------------------------- sequence helpers
RemoveAt(s, i) == [j \in 1..(Len(s) - 1) |-> IF j < i THEN s[j] ELSE s[j + 1]]

SockLive(pr) == pr.sock \in {"connecting", "open"}

\* ------------------------------------------- BaileysProvider: outbound queue
\* sendMessage: the test that decides between queueing and a direct send
MustQueue_StatusOnly(pr) == pr.status # "open"
MustQueue(pr) == pr.status # "open" \/ pr.isProcessingQueue

\* (variant: the loop takes the newest job)
MessageLoop_Newest(pr) ==
    IF pr.messageQueue # <<>>
    THEN [pr EXCEPT !.messageQueue = SubSeq(@, 1, Len(@) - 1),
                    !.outExec = Append(@, [st |-> "send",
                                           job |-> pr.messageQueue[Len(pr.messageQueue)]])]
    ELSE [pr EXCEPT !.isProcessingQueue = FALSE]

\* (variant: the loop reads the head without shift())
MessageLoop_NoShift(pr) ==
    IF pr.messageQueue # <<>>
    THEN [pr EXCEPT !.outExec = Append(@, [st |-> "send", job |-> Head(pr.messageQueue)])]
    ELSE [pr EXCEPT !.isProcessingQueue = FALSE]

\* the body of the while loop of processMessageQueue up to its await:
\* shift the head and call _performSendMessage, or leave the loop
MessageLoop(pr) ==
    IF pr.messageQueue # <<>>
    THEN [pr EXCEPT !.messageQueue = Tail(@),
                    !.outExec = Append(@, [st |-> "send", job |-> Head(pr.messageQueue)])]
    ELSE [pr EXCEPT !.isProcessingQueue = FALSE]

processMessageQueue(pr) ==
    IF pr.isProcessingQueue \/ pr.messageQueue = <<>>
    THEN pr
    ELSE MessageLoop([pr EXCEPT !.isProcessingQueue = TRUE])

\* (variant: no break, the loop goes on with the job behind the failed one)
MessageCatch_SkipAhead(pr, job) ==
    IF pr.messageQueue = <<>>
    THEN [pr EXCEPT !.messageQueue = <<job>>, !.isProcessingQueue = FALSE]
    ELSE [pr EXCEPT !.messageQueue = <<job>> \o Tail(@),
                    !.outExec = Append(@, [st |-> "send", job |-> Head(pr.messageQueue)])]

\* (variant: the failed job goes to the tail)
MessageCatch_Tail(pr, job) ==
    [pr EXCEPT !.messageQueue = Append(@, job), !.isProcessingQueue = FALSE]

\* (variant: the catch returns instead of break, the flag is left set)
MessageCatch_Return(pr, job) ==
    [pr EXCEPT !.messageQueue = <<job>> \o @]

\* catch of processMessageQueue: unshift(job); break; isProcessingQueue = false
MessageCatch(pr, job) ==
    [pr EXCEPT !.messageQueue = <<job>> \o @, !.isProcessingQueue = FALSE]

\* -------------------------------------------- both providers: inbound queue
\* the body of the while loop of processWebhookQueue up to its first await
WebhookLoop(pr) ==
    IF pr.webhookQueue # <<>>
    THEN [pr EXCEPT !.webhookQueue = Tail(@),
                    !.inExec = Append(@, Head(pr.webhookQueue))]
    ELSE [pr EXCEPT !.isProcessingWebhookQueue = FALSE]

\* (variant: no single-flight test)
processWebhookQueue_NoGuard(pr) ==
    IF pr.webhookQueue = <<>>
    THEN pr
    ELSE WebhookLoop([pr EXCEPT !.isProcessingWebhookQueue = TRUE])

processWebhookQueue(pr) ==
    IF pr.isProcessingWebhookQueue \/ pr.webhookQueue = <<>>
    THEN pr
    ELSE WebhookLoop([pr EXCEPT !.isProcessingWebhookQueue = TRUE])

\* (variant: one retry too many)
RetriesLeft_OffByOne(job) == job.retryCount + 1 <= maxWebhookRetries

\* job.retryCount++ ; retries left?
RetriesLeft(job) == job.retryCount + 1 < maxWebhookRetries

\* (variant: the failed job is re-queued at the tail)
WebhookCatch_Tail(pr, job) ==
    IF RetriesLeft(job)
    THEN [pr EXCEPT !.webhookQueue = Append(@, [job EXCEPT !.retryCount = @ + 1]),
                    !.whTimers = @ + 1]
    ELSE WebhookLoop(pr)

\* (variant: the catch re-queues the job without counting the attempt)
WebhookCatch_NoCount(pr, job) ==
    IF RetriesLeft(job)
    THEN [pr EXCEPT !.webhookQueue = <<job>> \o @, !.whTimers = @ + 1]
    ELSE WebhookLoop(pr)

\* (variant: the catch clears the flag before it returns)
WebhookCatch_FlagCleared(pr, job) ==
    IF RetriesLeft(job)
    THEN [pr EXCEPT !.webhookQueue = <<[job EXCEPT !.retryCount = @ + 1]>> \o @,
                    !.whTimers = @ + 1, !.isProcessingWebhookQueue = FALSE]
    ELSE WebhookLoop(pr)

\* catch of processWebhookQueue (same in both providers): re-queue at the head
\* and return with the flag still set, or alert and go on with the loop
WebhookCatch(pr, job) ==
    IF RetriesLeft(job)
    THEN [pr EXCEPT !.webhookQueue = <<[job EXCEPT !.retryCount = @ + 1]>> \o @,
                    !.whTimers = @ + 1]
    ELSE WebhookLoop(pr)

\* BaileysProvider.processWebhookQueue after the fetch settled:
\* !response.ok throws whatever the status, so 4xx takes the catch
BaileysWebhookSettle(pr, job, outcome) ==
    IF outcome = "2xx" THEN WebhookLoop(pr) ELSE WebhookCatch(pr, job)

\* MetaProvider.processWebhookQueue after the fetch settled:
\* 4xx is logged and the job dropped without throwing
MetaWebhookSettle(pr, job, outcome) ==
    IF outcome \in {"2xx", "4xx"} THEN WebhookLoop(pr) ELSE WebhookCatch(pr, job)

\* does settling this attempt call sendEmailAlert?
BaileysAlerts(job, outcome) == outcome # "2xx" /\ ~RetriesLeft(job)
MetaAlerts(job, outcome) == outcome = "err" /\ ~RetriesLeft(job)

\* (variant: the callback does not clear the flag)
CooldownCallback_KeepFlag(pr) ==
    processWebhookQueue([pr EXCEPT !.whTimers = @ - 1])

\* the setTimeout callback of the catch: clear the flag, drain again
CooldownCallback(pr) ==
    processWebhookQueue([pr EXCEPT !.whTimers = @ - 1,
                                   !.isProcessingWebhookQueue = FALSE])

\* handleMessages / onMessageReceived
handleMessages(pr, e, fromMe, hasContent) ==
    IF pr.webhookUrl = NoUrl THEN pr
    ELSE IF fromMe \/ ~hasContent THEN pr
    ELSE processWebhookQueue(
            [pr EXCEPT !.webhookQueue = Append(@, [msg |-> e, retryCount |-> 0])])

onMessageReceived(pr, e) ==
    IF pr.webhookUrl = NoUrl THEN pr
    ELSE processWebhookQueue(
            [pr EXCEPT !.webhookQueue = Append(@, [msg |-> e, retryCount |-> 0])])

\* (variant: the exponent is retryCount)
ReconnectDelay_Late(retryCount) == baseDelay * 2 ^ retryCount

\* the delay of the reconnection timer: 5000 * Math.pow(2, retryCount - 1) ms
ReconnectDelay(retryCount) == baseDelay * 2 ^ (retryCount - 1)

\* ---------------------------------------- BaileysProvider: connection state
startReconnecting_AtLimit(pr) ==
    LET r == [pr EXCEPT !.retryCount = @ + 1] IN
    IF r.retryCount >= maxRetry
    THEN [r EXCEPT !.status = "max_retries_reached"]
    ELSE [r EXCEPT !.timers = @ + 1, !.delay = ReconnectDelay(r.retryCount)]
startReconnecting(pr) ==
    LET r == [pr EXCEPT !.retryCount = @ + 1] IN
    IF r.retryCount > maxRetry
    THEN [r EXCEPT !.status = "max_retries_reached"]
    ELSE [r EXCEPT !.timers = @ + 1, !.delay = ReconnectDelay(r.retryCount)]

\* (variant: every close reconnects)
handleConnectionUpdate_AlwaysReconnect(pr, connection, qr, loggedOut) ==
    LET s == [pr EXCEPT !.status = IF connection # Undef THEN connection ELSE @,
                        !.qr = IF qr THEN TRUE ELSE @] IN
    IF connection = "close"
    THEN startReconnecting(s)
    ELSE IF connection = "open"
    THEN processWebhookQueue(processMessageQueue(
            [s EXCEPT !.retryCount = 0, !.qr = FALSE]))
    ELSE s

\* (variant: the open branch does not call processMessageQueue)
handleConnectionUpdate_NoOutboundDrain(pr, connection, qr, loggedOut) ==
    LET s == [pr EXCEPT !.status = IF connection # Undef THEN connection ELSE @,
                        !.qr = IF qr THEN TRUE ELSE @] IN
    IF connection = "close"
    THEN IF ~loggedOut THEN startReconnecting(s) ELSE s
    ELSE IF connection = "open"
    THEN processWebhookQueue([s EXCEPT !.retryCount = 0, !.qr = FALSE])
    ELSE s

\* handleConnectionUpdate without the onCleanup call of the logged-out branch
handleConnectionUpdate(pr, connection, qr, loggedOut) ==
    LET s == [pr EXCEPT !.status = IF connection # Undef THEN connection ELSE @,
                        !.qr = IF qr THEN TRUE ELSE @] IN
    IF connection = "close"
    THEN IF ~loggedOut THEN startReconnecting(s) ELSE s
    ELSE IF connection = "open"
    THEN processWebhookQueue(processMessageQueue(
            [s EXCEPT !.retryCount = 0, !.qr = FALSE]))
    ELSE s

\* (variant: init() without its try/catch leaves the status as it was)
InitSettle_NoCatch(pr, ok) ==
    IF ok THEN [pr EXCEPT !.sock = "connecting"] ELSE pr

\* init() once its awaits settled: a new socket, or the catch
InitSettle(pr, ok) ==
    IF ok THEN [pr EXCEPT !.sock = "connecting"] ELSE [pr EXCEPT !.status = "error"]

\* the restart of a failed session (startSession, getQrCode) up to await init
RestartFailed_KeepCount(pr) == [pr EXCEPT !.status = "starting"]
RestartFailed(pr) == [pr EXCEPT !.retryCount = 0, !.status = "starting"]

\* startSession: does the existing session get restarted?
NeedsRestart_AlsoOpen(pr) ==
    pr.kind = "baileys" /\ pr.status \in {"max_retries_reached", "open"}
NeedsRestart(pr) == pr.kind = "baileys" /\ pr.status = "max_retries_reached"

\* ------------------------------------------------------- SessionService
\* The registry state the service's functions read and write, as one value.
Reg == [prov |-> prov, sessions |-> sessions, store |-> store, calls |-> calls,
        nextProv |-> nextProv]

Call(op, id, p, pc, wh, cfg) ==
    [op |-> op, id |-> id, p |-> p, pc |-> pc, wh |-> wh, cfg |-> cfg]

\* await session.logout() suspends its caller: the session is registered
\* and its socket is connected
LogoutSuspends(R, id) ==
    /\ R.sessions[id] # 0
    /\ R.prov[R.sessions[id]].kind = "baileys"
    /\ SockLive(R.prov[R.sessions[id]])

\* (variant: the map and the store are emptied)
DeleteFinish_All(R, id) ==
    [R EXCEPT !.sessions = [i \in Ids |-> 0], !.store = [i \in Ids |-> NoMeta]]

\* deleteSession after await session.logout(): drop from the map and the store
DeleteFinish(R, id) ==
    [R EXCEPT !.sessions[id] = 0, !.store = RemoveMetadata(@, id)]

\* deleteSession up to its first await that suspends.  logout() suspends only
\* on a socket that is still connected; MetaProvider.logout just sets "close".
deleteSession(R, id) ==
    LET p == R.sessions[id] IN
    IF p = 0 THEN [R EXCEPT !.store = RemoveMetadata(@, id)]
    ELSE IF R.prov[p].kind = "meta"
    THEN DeleteFinish([R EXCEPT !.prov[p].status = "close"], id)
    ELSE IF ~SockLive(R.prov[p]) THEN DeleteFinish(R, id)
    ELSE [R EXCEPT !.calls = @ \cup {Call("delete", id, p, "logout", Undef, Undef)}]

\* connection.update { connection: "close" } of provider p; a logged-out
\* reason runs onCleanup, i.e. deleteSession(sessionId), up to its await
CloseEvent(R, p, loggedOut) ==
    LET R1 == [R EXCEPT !.prov[p] =
                 handleConnectionUpdate([@ EXCEPT !.sock = "ended"], "close", FALSE, loggedOut)]
    IN IF loggedOut THEN deleteSession(R1, R.prov[p].sid) ELSE R1

\* BaileysProvider.logout once sock.logout() settled: on a connected socket
\* that accepts it the socket ends with the logged-out reason; every
\* rejection is caught
LogoutSettle(R, p, ok) ==
    IF SockLive(R.prov[p]) /\ ok THEN CloseEvent(R, p, TRUE) ELSE R

\* startSession for an id that is absent from the map, up to await init:
\* save the metadata, pick the provider, construct it
StartAbsent(R, id, wh, cfg, op) ==
    LET np == R.nextProv
        R1 == [R EXCEPT !.store = SaveMetadata(@, id, wh, cfg), !.nextProv = @ + 1]
    IN IF UsableMeta(cfg)
       THEN [R1 EXCEPT !.prov[np] = MetaProvider(id, wh, cfg), !.sessions[id] = np]
       ELSE [R1 EXCEPT !.prov[np] = BaileysProvider(id, wh),
                       !.calls = @ \cup {Call(op, id, np, "init", wh, cfg)}]

\* startSession up to its first await that suspends
startSession(R, id, wh, cfg, op) ==
    LET p == R.sessions[id] IN
    IF p # 0
    THEN IF NeedsRestart(R.prov[p])
         THEN [R EXCEPT !.prov[p] = RestartFailed(@),
                        !.calls = @ \cup {Call("restart", id, p, "init", wh, cfg)}]
         ELSE R
    ELSE StartAbsent(R, id, wh, cfg, op)

\* updateSession after await activeSession.logout(): drop from the map and
\* start again with the merged configuration
UpdateRestart(R, id, wh, cfg) ==
    startSession([R EXCEPT !.sessions[id] = 0], id, wh, cfg, "update")

\* the merged values of updateSession
Merged(new, old) == IF new # Undef THEN new ELSE old

\* updateSession: was a provider configuration supplied?
ConfigChanged_Always(cfg) == TRUE
ConfigChanged(cfg) == cfg # Undef

\* updateSession (metadata exists) up to its first await that suspends
updateSession(R, id, wh, cfg) ==
    LET newWebhook == Merged(wh, R.store[id].webhookUrl)
        newMetaConfig == Merged(cfg, R.store[id].metaConfig)
        p == R.sessions[id]
        R1 == [R EXCEPT !.store = SaveMetadata(@, id, newWebhook, newMetaConfig)]
        R2 == IF p # 0 /\ wh # Undef THEN [R1 EXCEPT !.prov[p].webhookUrl = wh] ELSE R1
    IN IF p = 0 \/ ~ConfigChanged(cfg) THEN R2
       ELSE IF R2.prov[p].kind = "meta"
       THEN UpdateRestart([R2 EXCEPT !.prov[p].status = "close"], id, newWebhook, newMetaConfig)
       ELSE IF ~SockLive(R2.prov[p])
       THEN UpdateRestart(R2, id, newWebhook, newMetaConfig)
       ELSE [R2 EXCEPT !.calls = @ \cup
                {Call("update", id, p, "logout", newWebhook, newMetaConfig)}]

\* restoreSessions: the forEach over getAllSessions(); the callback of one id
\* runs startSession up to its first await that suspends, and a rejection of
\* that startSession (ids in failing) ends in its .catch
RECURSIVE restoreSessions_Abort(_, _, _)
restoreSessions_Abort(R, id, failing) ==
    IF id > NumIds THEN R
    ELSE IF ~HasMetadata(R.store, id) THEN restoreSessions_Abort(R, id + 1, failing)
    ELSE IF id \in failing THEN R
    ELSE restoreSessions_Abort(
            startSession(R, id, R.store[id].webhookUrl, R.store[id].metaConfig, "start"),
            id + 1, failing)

RECURSIVE restoreSessions(_, _, _)
restoreSessions(R, id, failing) ==
    IF id > NumIds THEN R
    ELSE IF ~HasMetadata(R.store, id) \/ id \in failing
    THEN restoreSessions(R, id + 1, failing)
    ELSE restoreSessions(
            startSession(R, id, R.store[id].webhookUrl, R.store[id].metaConfig, "start"),
            id + 1, failing)

\* assign a registry state to the variables
Commit(R) ==
    /\ prov' = R.prov
    /\ sessions' = R.sessions
    /\ store' = R.store
    /\ calls' = R.calls
    /\ nextProv' = R.nextProv
    /\ R.nextProv <= MaxProv + 1
    /\ Cardinality(R.calls) <= MaxCalls

Returned(op, id, ret, how) == [op |-> op, id |-> id, ret |-> ret, how |-> how]

Init ==
    /\ prov = [p \in ProvIds |-> Free]
    /\ nextProv = 1
    /\ sessions = [i \in Ids |-> 0]
    /\ store = [i \in Ids |-> NoMeta]
    /\ calls = {}
    /\ nextMsg = 1
    /\ nextEv = 1
    /\ hist = [sent |-> [p \in ProvIds |-> <<>>],
               queued |-> [p \in ProvIds |-> <<>>],
               direct |-> [p \in ProvIds |-> <<>>],
               offline |-> [p \in ProvIds |-> <<>>],
               enq |-> [e \in 1..MaxEvents |-> 0],
               fails |-> [e \in 1..MaxEvents |-> 0],
               alerts |-> [e \in 1..MaxEvents |-> 0],
               got4xx |-> [e \in 1..MaxEvents |-> 0],
               got2xx |-> [e \in 1..MaxEvents |-> 0]]
    /\ lastOp = NoCall

\* ================================================================ actions
StartUrls == Urls \cup {NoUrl}
StartCfgs == Cfgs \cup {NoCfg, BadCfg}
Pending(R) == R.calls \ calls          \* the call record an action suspended on

\* POST /sessions/start -> SessionService.startSession
StartSession(id, wh, cfg) ==
    LET R == startSession(Reg, id, wh, cfg, "start") IN
    /\ sessions[id] = 0 => nextProv <= MaxProv
    /\ Commit(R)
    /\ lastOp' = IF Pending(R) # {} THEN lastOp
                 ELSE Returned("start", id, R.sessions[id],
                               IF sessions[id] = 0 THEN "created"
                               ELSE IF prov[sessions[id]].status = "open"
                               THEN "existing_open" ELSE "existing")
    /\ UNCHANGED <<nextMsg, nextEv, hist>>

\* init() awaited by startSession / getQrCode settles; the caller goes on:
\* sessions.set for a new provider, then return
InitDone(c, ok) ==
    /\ c \in calls /\ c.pc = "init"
    /\ LET R1 == [Reg EXCEPT !.calls = @ \ {c},
                             !.prov[c.p] = InitSettle(@, ok)]
           R2 == IF c.op \in {"start", "update"}
                 THEN [R1 EXCEPT !.sessions[c.id] = c.p] ELSE R1
       IN Commit(R2)
    /\ lastOp' = Returned(c.op, c.id, c.p,
                          IF c.op \in {"start", "update"} THEN "created" ELSE "restarted")
    /\ UNCHANGED <<nextMsg, nextEv, hist>>

\* (variant: no test for the persisted record)
UpdateSession_Upsert(id, wh, cfg) ==
    LET R == updateSession(Reg, id, wh, cfg) IN
    /\ nextProv <= MaxProv
    /\ Commit(R)
    /\ lastOp' = IF Pending(R) # {} THEN lastOp
                 ELSE Returned("update", id, R.sessions[id], "updated")
    /\ UNCHANGED <<nextMsg, nextEv, hist>>

\* PUT /sessions/:id/metadata -> SessionService.updateSession
UpdateSession(id, wh, cfg) ==
    IF ~HasMetadata(store, id)
    THEN /\ lastOp' = Returned("update", id, 0, "notfound")
         /\ UNCHANGED <<prov, nextProv, sessions, store, calls, nextMsg, nextEv, hist>>
    ELSE LET R == updateSession(Reg, id, wh, cfg) IN
         /\ nextProv <= MaxProv
         /\ (ConfigChanged(cfg) /\ LogoutSuspends(Reg, id)) => Pending(R) # {}
         /\ Commit(R)
         /\ lastOp' = IF Pending(R) # {} THEN lastOp
                      ELSE Returned("update", id, R.sessions[id],
                                    IF sessions[id] # 0 /\ ConfigChanged(cfg)
                                    THEN "created"
                                    ELSE IF sessions[id] # 0 /\ wh # Undef
                                    THEN "webhook" ELSE "updated")
         /\ UNCHANGED <<nextMsg, nextEv, hist>>

\* DELETE /sessions/:id -> SessionService.deleteSession
DeleteSession(id) ==
    LET R == deleteSession(Reg, id) IN
    /\ LogoutSuspends(Reg, id) => Pending(R) # {}
    /\ Commit(R)
    /\ lastOp' = IF Pending(R) # {} THEN lastOp ELSE Returned("delete", id, 0, "true")
    /\ UNCHANGED <<nextMsg, nextEv, hist>>

\* logout() awaited by deleteSession / updateSession settles; the caller goes on
LogoutDone(c, ok) ==
    /\ c \in calls /\ c.pc = "logout"
    /\ nextProv <= MaxProv
    /\ LET R1 == LogoutSettle([Reg EXCEPT !.calls = @ \ {c}], c.p, ok)
           R2 == IF c.op = "delete" THEN DeleteFinish(R1, c.id)
                 ELSE UpdateRestart(R1, c.id, c.wh, c.cfg)
       IN /\ Commit(R2)
          /\ lastOp' = IF c.op = "delete" THEN Returned("delete", c.id, 0, "true")
                       ELSE IF R2.sessions[c.id] # 0
                       THEN Returned("update", c.id, R2.sessions[c.id], "created")
                       ELSE lastOp
    /\ UNCHANGED <<nextMsg, nextEv, hist>>

\* server.js at process start -> SessionService.restoreSessions(); failing is
\* the set of ids whose startSession rejects
RestoreSessions(failing) ==
    LET R == restoreSessions(Reg, 1, failing) IN
    /\ lastOp.op = "none" /\ nextProv = 1
    /\ Commit(R)
    /\ lastOp' = Returned("restore", 0, R.nextProv - 1, "done")
    /\ UNCHANGED <<nextMsg, nextEv, hist>>

\* GET /sessions/:id/qr on a failed session: restart it (SessionController.getQrCode)
GetQrCode(id) ==
    /\ sessions[id] # 0
    /\ prov[sessions[id]].status = "max_retries_reached"
    /\ Commit([Reg EXCEPT !.prov[sessions[id]] = RestartFailed(@),
                          !.calls = @ \cup {Call("qr", id, sessions[id], "init", Undef, Undef)}])
    /\ UNCHANGED <<nextMsg, nextEv, hist, lastOp>>

\* the reconnection timer of startReconnecting fires: () => this.init()
ReconnectTimer(p) ==
    /\ prov[p].timers > 0
    /\ prov' = [prov EXCEPT ![p].timers = @ - 1, ![p].inits = @ + 1,
                             ![p].delay = IF prov[p].timers = 1 THEN 0 ELSE @]
    /\ UNCHANGED <<nextProv, sessions, store, calls, nextMsg, nextEv, hist, lastOp>>

\* an init() started by the timer settles
TimerInitDone(p, ok) ==
    /\ prov[p].inits > 0
    /\ prov' = [prov EXCEPT ![p] = InitSettle([@ EXCEPT !.inits = @ - 1], ok)]
    /\ UNCHANGED <<nextProv, sessions, store, calls, nextMsg, nextEv, hist, lastOp>>

\* connection.update events of the socket, other than close
ConnectionUpdate(p, connection, qr) ==
    /\ prov[p].kind = "baileys"
    /\ \/ connection = "connecting" /\ ~qr /\ prov[p].sock = "connecting"
          /\ prov[p].status # "connecting"
       \/ connection = Undef /\ qr /\ prov[p].sock = "connecting" /\ ~prov[p].qr
       \/ connection = "open" /\ ~qr /\ prov[p].sock = "connecting"
    /\ prov' = [prov EXCEPT ![p] = handleConnectionUpdate(
                    [@ EXCEPT !.sock = IF connection = "open" THEN "open" ELSE @],
                    connection, qr, FALSE)]
    /\ UNCHANGED <<nextProv, sessions, store, calls, nextMsg, nextEv, hist, lastOp>>

\* connection.update { connection: "close" }: the socket ended
ConnectionClose(p, loggedOut) ==
    /\ prov[p].kind = "baileys" /\ SockLive(prov[p])
    /\ Commit(CloseEvent(Reg, p, loggedOut))
    /\ UNCHANGED <<nextMsg, nextEv, hist, lastOp>>

\* POST /sessions/:id/send-message on a socket session -> sendMessage
SendMessage(id) ==
    LET p == sessions[id] IN
    /\ p # 0 /\ prov[p].kind = "baileys"
    /\ nextMsg <= MaxSends
    /\ nextMsg' = nextMsg + 1
    /\ IF MustQueue(prov[p])
       THEN /\ prov' = [prov EXCEPT ![p].messageQueue = Append(@, nextMsg)]
            /\ hist' = [hist EXCEPT
                   !.queued[p] = Append(@, nextMsg),
                   !.offline[p] = IF prov[p].status # "open" THEN Append(@, nextMsg) ELSE @]
            /\ lastOp' = Returned("send", id, nextMsg, "queued")
       ELSE /\ prov' = prov
            /\ hist' = [hist EXCEPT !.direct[p] = Append(@, nextMsg)]
            /\ lastOp' = Returned("send", id, nextMsg, "direct")
    /\ UNCHANGED <<nextProv, sessions, store, calls, nextEv>>

\* POST /sessions/:id/send-message on a REST session -> MetaProvider.sendMessage
\* -> _sendPayload: one request to the Graph API, its result goes to the caller
MetaSendMessage(id) ==
    LET p == sessions[id] IN
    /\ p # 0 /\ prov[p].kind = "meta"
    /\ nextMsg <= MaxSends
    /\ nextMsg' = nextMsg + 1
    /\ hist' = [hist EXCEPT !.direct[p] = Append(@, nextMsg)]
    /\ lastOp' = Returned("send", id, nextMsg, "direct")
    /\ UNCHANGED <<prov, nextProv, sessions, store, calls, nextEv>>

\* POST /sessions/:id/send-image (-document, -audio, -video) on a socket
\* session -> sendImage ..: this.sock.sendMessage at once; with no socket
\* object the call throws and the controller answers 500
SendMedia(id) ==
    LET p == sessions[id] IN
    /\ p # 0 /\ prov[p].kind = "baileys"
    /\ nextMsg <= MaxSends
    /\ nextMsg' = nextMsg + 1
    /\ IF prov[p].sock = "none"
       THEN /\ hist' = hist
            /\ lastOp' = Returned("media", id, nextMsg, "error")
       ELSE /\ hist' = [hist EXCEPT !.direct[p] = Append(@, nextMsg)]
            /\ lastOp' = Returned("media", id, nextMsg, "direct")
    /\ UNCHANGED <<prov, nextProv, sessions, store, calls, nextEv>>

\* processMessageQueue: _performSendMessage of the job in flight settles
SendDone(p, i, ok) ==
    /\ i \in DOMAIN prov[p].outExec
    /\ prov[p].outExec[i].st = "send"
    /\ ok => prov[p].sock # "none"
    /\ LET job == prov[p].outExec[i].job IN
       IF ok
       THEN /\ prov' = [prov EXCEPT ![p].outExec[i] = [st |-> "sleep", job |-> 0]]
            /\ hist' = [hist EXCEPT !.sent[p] = Append(@, job)]
       ELSE /\ prov' = [prov EXCEPT ![p] =
                          MessageCatch([@ EXCEPT !.outExec = RemoveAt(@, i)], job)]
            /\ hist' = hist
    /\ UNCHANGED <<nextProv, sessions, store, calls, nextMsg, nextEv, lastOp>>

\* processMessageQueue: the 1000 ms pause after a send is over
SleepDone(p, i) ==
    /\ i \in DOMAIN prov[p].outExec
    /\ prov[p].outExec[i].st = "sleep"
    /\ prov' = [prov EXCEPT ![p] = MessageLoop([@ EXCEPT !.outExec = RemoveAt(@, i)])]
    /\ UNCHANGED <<nextProv, sessions, store, calls, nextMsg, nextEv, hist, lastOp>>

\* messages.upsert of a connected socket -> handleMessages
MessagesUpsert(p, fromMe, hasContent) ==
    /\ prov[p].kind = "baileys" /\ prov[p].sock = "open"
    /\ nextEv <= MaxEvents
    /\ nextEv' = nextEv + 1
    /\ prov' = [prov EXCEPT ![p] = handleMessages(@, nextEv, fromMe, hasContent)]
    /\ hist' = [hist EXCEPT !.enq[nextEv] = IF prov'[p] # prov[p] THEN 1 ELSE 0]
    /\ UNCHANGED <<nextProv, sessions, store, calls, nextMsg, lastOp>>

\* POST /meta/webhook -> MetaController.handleIncoming -> onMessageReceived
MetaIncoming(id) ==
    LET p == sessions[id] IN
    /\ p # 0 /\ prov[p].kind = "meta"
    /\ nextEv <= MaxEvents
    /\ nextEv' = nextEv + 1
    /\ prov' = [prov EXCEPT ![p] = onMessageReceived(@, nextEv)]
    /\ hist' = [hist EXCEPT !.enq[nextEv] = IF prov'[p] # prov[p] THEN 1 ELSE 0]
    /\ UNCHANGED <<nextProv, sessions, store, calls, nextMsg, lastOp>>

Outcomes == {"2xx", "4xx", "err"}
Bump(f, e) == [f EXCEPT ![e] = @ + 1]

\* processWebhookQueue: the attempt of the job in flight (media fetch, POST) settles
WebhookDone(p, i, outcome) ==
    /\ i \in DOMAIN prov[p].inExec
    /\ LET job == prov[p].inExec[i]
           rest == [prov[p] EXCEPT !.inExec = RemoveAt(@, i)]
           alert == IF prov[p].kind = "meta" THEN MetaAlerts(job, outcome)
                    ELSE BaileysAlerts(job, outcome)
       IN /\ prov' = [prov EXCEPT ![p] =
                        IF prov[p].kind = "meta" THEN MetaWebhookSettle(rest, job, outcome)
                        ELSE BaileysWebhookSettle(rest, job, outcome)]
          /\ hist' = [hist EXCEPT
                 !.got2xx = IF outcome = "2xx" THEN Bump(@, job.msg) ELSE @,
                 !.got4xx = IF outcome = "4xx" THEN Bump(@, job.msg) ELSE @,
                 !.fails  = IF outcome = "err" THEN Bump(@, job.msg) ELSE @,
                 !.alerts = IF alert THEN Bump(@, job.msg) ELSE @]
    /\ UNCHANGED <<nextProv, sessions, store, calls, nextMsg, nextEv, lastOp>>

\* the cooldown timer of the catch of processWebhookQueue fires
CooldownTimer(p) ==
    /\ prov[p].whTimers > 0
    /\ prov' = [prov EXCEPT ![p] = CooldownCallback(@)]
    /\ UNCHANGED <<nextProv, sessions, store, calls, nextMsg, nextEv, hist, lastOp>>

\* ----------------------------------------------------------- specifications
\* Each specification drives the same handlers with the requests and
\* transport events of one scenario.
Sid == 1                                  \* the session id the requests name
First == 1                                \* the provider object of that session
Idle == \A c \in calls : c.id # Sid       \* no registry call of Sid is suspended

\* --- requests and transport events that several scenarios share
AnyInitDone == \E c \in calls, ok \in BOOLEAN : InitDone(c, ok)
InitSucceeds == \E c \in calls : InitDone(c, TRUE)
AnyLogoutDone == \E c \in calls, ok \in BOOLEAN : LogoutDone(c, ok)
StartSocket == nextProv = First /\ StartSession(Sid, "u1", NoCfg)
StartEither == \E cfg \in {NoCfg, "m1"} : nextProv = First /\ StartSession(Sid, "u1", cfg)
TimerFires == ReconnectTimer(First)
TimerInitSettles == \E ok \in BOOLEAN : TimerInitDone(First, ok)
TimerInitSucceeds == TimerInitDone(First, TRUE)
Opens == ConnectionUpdate(First, "open", FALSE)
AnyOpens == \E p \in ProvIds : ConnectionUpdate(p, "open", FALSE)
SocketUpdate ==
    \E c \in {"connecting", "open", Undef}, qr \in BOOLEAN :
        ConnectionUpdate(First, c, qr)
Closes == ConnectionClose(First, FALSE)
AnyLoggedOut == \E p \in ProvIds : ConnectionClose(p, TRUE)
Deletes == DeleteSession(Sid)
DeletesWhenIdle == Idle /\ DeleteSession(Sid)
Sends == SendMessage(Sid)
SendSettles == \E i \in 1..2, ok \in BOOLEAN : SendDone(First, i, ok)
SendSucceeds == \E i \in 1..2 : SendDone(First, i, TRUE)
PauseEnds == \E i \in 1..2 : SleepDone(First, i)
SocketEvent ==
    \E fromMe \in BOOLEAN, hasContent \in BOOLEAN :
        MessagesUpsert(First, fromMe, hasContent)
RestEvent == MetaIncoming(Sid)
WebhookSettles == \E i \in 1..2, o \in Outcomes : WebhookDone(First, i, o)
CooldownEnds == CooldownTimer(First)

\* --- the registry under concurrent start / update / delete requests
RegStart == \E wh \in Urls, cfg \in {NoCfg, "m1"} : StartSession(Sid, wh, cfg)
RegUpdate == \E wh \in {"u2", Undef}, cfg \in {"m1", NoCfg, Undef} : UpdateSession(Sid, wh, cfg)

RegistryNext ==
    \/ RegStart \/ AnyInitDone \/ RegUpdate \/ Deletes \/ AnyLogoutDone
    \/ AnyOpens \/ AnyLoggedOut

SpecRegistry == Init /\ [][RegistryNext]_vars

\* --- one socket session: connection state machine and outbound queue
OneRestart == sessions[Sid] # 0 /\ StartSession(Sid, "u1", NoCfg)
OneQr == GetQrCode(Sid)
OneLoggedOut == ConnectionClose(First, TRUE)

SocketNext ==
    \/ StartSocket \/ OneRestart \/ AnyInitDone \/ OneQr \/ TimerFires \/ TimerInitSettles
    \/ SocketUpdate \/ Closes \/ OneLoggedOut \/ Sends \/ SendSettles \/ PauseEnds

SpecSocket == Init /\ [][SocketNext]_vars

\* --- the registry driven by a client that waits for a start, a restarting
\* update or a delete to return before it sends the next one; transport
\* events and webhook-only updates arrive at any time
SerStart == \E wh \in Urls, cfg \in {NoCfg, "m1"} : Idle /\ StartSession(Sid, wh, cfg)
SerUpdate ==
    \E wh \in {"u2", Undef}, cfg \in {"m1", NoCfg, Undef} :
        /\ ConfigChanged(cfg) => Idle
        /\ UpdateSession(Sid, wh, cfg)

SerialNext ==
    \/ SerStart \/ AnyInitDone \/ SerUpdate \/ DeletesWhenIdle \/ AnyLogoutDone
    \/ AnyOpens \/ AnyLoggedOut

SpecSerial == Init /\ [][SerialNext]_vars

\* --- pairing: one socket session that is started, paired and opened, with
\* a provider that accepts every send; the sends come while the session is
\* starting or open.  The pause timer and the
\* settling of a send are events the event loop always gets to.
PairSend ==
    /\ sessions[Sid] # 0
    /\ prov[sessions[Sid]].status \in {"starting", "open"}
    /\ SendMessage(Sid)

PairingNext ==
    \/ StartSocket \/ InitSucceeds \/ SocketUpdate
    \/ Closes \/ TimerFires \/ TimerInitSucceeds
    \/ PairSend \/ SendSucceeds \/ PauseEnds

SpecPairing ==
    /\ Init /\ [][PairingNext]_vars
    /\ WF_vars(SendSucceeds) /\ WF_vars(PauseEnds)

\* --- one session of either kind that gets work in both queues and is
\* deleted by its client
DelUpsert == sessions[Sid] = First /\ MessagesUpsert(First, FALSE, TRUE)

DeleteNext ==
    \/ StartEither \/ InitSucceeds \/ Opens
    \/ Sends \/ SendSettles \/ PauseEnds
    \/ DelUpsert \/ RestEvent \/ WebhookSettles \/ CooldownEnds
    \/ Deletes \/ AnyLogoutDone

SpecDelete == Init /\ [][DeleteNext]_vars

\* --- one socket session that loses its connection and is deleted by its
\* client while it reconnects
StaleClose == \E loggedOut \in BOOLEAN : ConnectionClose(First, loggedOut)

StaleNext ==
    \/ StartSocket \/ AnyInitDone \/ SocketUpdate \/ StaleClose
    \/ TimerFires \/ TimerInitSettles \/ Deletes \/ AnyLogoutDone

SpecStale == Init /\ [][StaleNext]_vars

\* --- one session of either kind, started with or without a webhook
\* address, that receives inbound events while its address is updated
InStart == \E wh \in {"u1", NoUrl}, cfg \in {NoCfg, "m1"} :
              nextProv = First /\ StartSession(Sid, wh, cfg)
InUpdate == \E wh \in {"u2", NoUrl} : UpdateSession(Sid, wh, Undef)

InboundNext ==
    \/ InStart \/ InitSucceeds \/ Opens \/ InUpdate
    \/ SocketEvent \/ RestEvent \/ WebhookSettles \/ CooldownEnds

SpecInbound == Init /\ [][InboundNext]_vars

\* --- the same scenario when every fetch settles and every timer fires:
\* the event loop always gets to a settled promise and to a due timer
SpecDelivery ==
    /\ Init /\ [][InboundNext]_vars
    /\ WF_vars(WebhookSettles) /\ WF_vars(CooldownEnds)

\* --- one socket session that pairs, opens, loses its connection and opens
\* again while sends and inbound events arrive
OpQr == ConnectionUpdate(First, Undef, TRUE)
OpClose == prov[First].retryCount = 0 /\ ConnectionClose(First, FALSE)
OpSend ==
    /\ sessions[Sid] # 0
    /\ prov[sessions[Sid]].messageQueue = <<>>
    /\ SendMessage(Sid)
OpUpsert ==
    /\ ~prov[First].isProcessingWebhookQueue
    /\ MessagesUpsert(First, FALSE, TRUE)
OpWebhookDone == \E o \in {"2xx", "err"} : WebhookDone(First, 1, o)

OpenNext ==
    \/ StartSocket \/ InitSucceeds \/ OpQr \/ Opens \/ OpClose \/ TimerFires \/ TimerInitSucceeds
    \/ OpSend \/ SendSucceeds \/ PauseEnds
    \/ OpUpsert \/ OpWebhookDone \/ CooldownEnds

SpecOpen == Init /\ [][OpenNext]_vars

\* --- one socket session whose provider may reject a send, when every
\* provider call settles and every pause ends
OutboundNext ==
    \/ StartSocket \/ InitSucceeds \/ Opens \/ OpClose \/ TimerFires \/ TimerInitSucceeds
    \/ Sends \/ SendSettles \/ PauseEnds

SpecOutbound ==
    /\ Init /\ [][OutboundNext]_vars
    /\ WF_vars(SendSettles) /\ WF_vars(PauseEnds)

\* --- the process starts over a store that holds records of an earlier run
Records == {[webhookUrl |-> wh, metaConfig |-> cfg] :
               wh \in {"u1", NoUrl}, cfg \in {NoCfg, "m1"}}

InitRestore ==
    /\ store \in [Ids -> Records \cup {NoMeta}]
    /\ prov = [p \in ProvIds |-> Free]
    /\ nextProv = 1
    /\ sessions = [i \in Ids |-> 0]
    /\ calls = {}
    /\ nextMsg = 1
    /\ nextEv = 1
    /\ hist = [sent |-> [p \in ProvIds |-> <<>>],
               queued |-> [p \in ProvIds |-> <<>>],
               direct |-> [p \in ProvIds |-> <<>>],
               offline |-> [p \in ProvIds |-> <<>>],
               enq |-> [e \in 1..MaxEvents |-> 0],
               fails |-> [e \in 1..MaxEvents |-> 0],
               alerts |-> [e \in 1..MaxEvents |-> 0],
               got4xx |-> [e \in 1..MaxEvents |-> 0],
               got2xx |-> [e \in 1..MaxEvents |-> 0]]
    /\ lastOp = NoCall

RsRestore == \E failing \in SUBSET Ids : RestoreSessions(failing)
RsClose == \E p \in ProvIds : prov[p].retryCount = 0 /\ ConnectionClose(p, FALSE)
RsTimer == \E p \in ProvIds : ReconnectTimer(p)
RsTimerInit == \E p \in ProvIds, ok \in BOOLEAN : TimerInitDone(p, ok)

RestoreNext ==
    \/ RsRestore \/ AnyInitDone \/ AnyOpens
    \/ RsClose \/ RsTimer \/ RsTimerInit

SpecRestore == InitRestore /\ [][RestoreNext]_vars

\* --- one REST session: started, sent through, updated, deleted
RestStart == StartSession(Sid, "u1", "m1")
RestUpdate == \E wh \in {Undef, "u2"}, cfg \in {Undef, "m2"} : UpdateSession(Sid, wh, cfg)
RestSend == MetaSendMessage(Sid)
RestIncoming ==
    /\ nextEv = 1 /\ nextMsg = 1
    /\ MetaIncoming(Sid)
RestWebhookDone ==
    \E o \in {"2xx", "err"} : sessions[Sid] # 0 /\ WebhookDone(sessions[Sid], 1, o)
RestCooldown == sessions[Sid] # 0 /\ CooldownTimer(sessions[Sid])

RestNext ==
    \/ RestStart \/ RestUpdate \/ Deletes
    \/ RestSend \/ RestIncoming \/ RestWebhookDone \/ RestCooldown

SpecRest == Init /\ [][RestNext]_vars

\* --- one id started, updated and deleted with every kind of transport
\* configuration, one registry call at a time
CfgStart == \E wh \in {"u1", NoUrl}, cfg \in StartCfgs : Idle /\ StartSession(Sid, wh, cfg)
CfgUpdate ==
    \E wh \in {"u2", Undef}, cfg \in {"m2", BadCfg, Undef} :
        /\ ConfigChanged(cfg) => Idle
        /\ UpdateSession(Sid, wh, cfg)

ConfigNext == CfgStart \/ AnyInitDone \/ CfgUpdate \/ DeletesWhenIdle \/ AnyLogoutDone

SpecConfig == Init /\ [][ConfigNext]_vars

\* --- one socket session that takes text sends and media sends
MedSendMedia == SendMedia(Sid)

MediaNext ==
    \/ StartSocket \/ AnyInitDone \/ Opens \/ Closes
    \/ Sends \/ SendSettles \/ PauseEnds \/ MedSendMedia

SpecMedia == Init /\ [][MediaNext]_vars

\* --- two sessions side by side, each started once, of either kind.  A
\* session takes one send, then an update of its webhook address, then
\* inbound events, a disconnection or a delete, each when it has no job and
\* no timer pending; the steps of the two sessions interleave freely
Two == {Sid, Sid + 1}
NeverStarted(id) == \A p \in ProvIds : prov[p].sid # id
Quiet(p) ==
    /\ prov[p].messageQueue = <<>> /\ prov[p].outExec = <<>>
    /\ prov[p].webhookQueue = <<>> /\ prov[p].inExec = <<>> /\ prov[p].whTimers = 0
    /\ prov[p].timers = 0 /\ prov[p].inits = 0
QuietSession(id) ==
    /\ sessions[id] # 0 /\ Quiet(sessions[id])
    /\ \A c \in calls : c.id # id
HasSent(p) == hist.sent[p] \o hist.direct[p] # <<>>
IsoStart ==
    \E id \in Two, cfg \in {NoCfg, "m1"} :
        NeverStarted(id) /\ StartSession(id, "u1", cfg)
IsoUpdate ==
    \E id \in Two :
        /\ QuietSession(id) /\ HasSent(sessions[id])
        /\ prov[sessions[id]].webhookUrl = "u1"
        /\ UpdateSession(id, "u2", Undef)
IsoDelete ==
    \E id \in Two :
        /\ QuietSession(id) /\ prov[sessions[id]].webhookUrl = "u2"
        /\ DeleteSession(id)
IsoClose ==
    \E p \in ProvIds :
        /\ Quiet(p) /\ prov[p].webhookUrl = "u2" /\ prov[p].retryCount = 0
        /\ ConnectionClose(p, FALSE)
IsoTimerInit == \E p \in ProvIds : TimerInitDone(p, TRUE)
IsoSend ==
    \E id \in Two :
        /\ QuietSession(id)
        /\ hist.queued[sessions[id]] = <<>> /\ hist.direct[sessions[id]] = <<>>
        /\ (SendMessage(id) \/ MetaSendMessage(id))
IsoSendDone == \E p \in ProvIds : SendDone(p, 1, TRUE)
IsoSleepDone == \E p \in ProvIds : SleepDone(p, 1)
IsoUpsert ==
    \E p \in ProvIds :
        Quiet(p) /\ prov[p].webhookUrl = "u2" /\ MessagesUpsert(p, FALSE, TRUE)
IsoIncoming ==
    \E id \in Two :
        /\ QuietSession(id) /\ prov[sessions[id]].webhookUrl = "u2"
        /\ MetaIncoming(id)
IsoWebhookDone ==
    \E p \in ProvIds, o \in {"2xx", "err"} :
        /\ o = "err" => prov[p].inExec # <<>> /\ prov[p].inExec[1].retryCount = 0
        /\ WebhookDone(p, 1, o)
IsoCooldown == \E p \in ProvIds : CooldownTimer(p)

IsolationNext ==
    \/ IsoStart \/ InitSucceeds \/ AnyOpens \/ IsoClose \/ RsTimer \/ IsoTimerInit
    \/ IsoUpdate \/ IsoDelete \/ AnyLogoutDone
    \/ IsoSend \/ IsoSendDone \/ IsoSleepDone
    \/ IsoUpsert \/ IsoIncoming \/ IsoWebhookDone \/ IsoCooldown

SpecIsolation == Init /\ [][IsolationNext]_vars

\* --- one session of either kind and its two queues
QSend ==
    /\ sessions[Sid] # 0
    /\ prov[sessions[Sid]].status # "open"
    /\ prov[sessions[Sid]].messageQueue = <<>>
    /\ SendMessage(Sid)

QueuesNext ==
    \/ StartEither \/ InitSucceeds \/ Opens \/ Closes \/ TimerFires \/ TimerInitSucceeds
    \/ QSend \/ SendSettles \/ PauseEnds
    \/ SocketEvent \/ RestEvent \/ WebhookSettles \/ CooldownEnds

SpecQueues == Init /\ [][QueuesNext]_vars

\* ================================================================= claims
Constructed == {p \in ProvIds : prov[p].kind # "free"}
Baileys == {p \in ProvIds : prov[p].kind = "baileys"}

\* a provider object that is in use: registered, being initialised for a
\* start, or holding a connected socket
Live(p) ==
    \/ sessions[prov[p].sid] = p
    \/ \E c \in calls : c.p = p /\ c.pc = "init"
    \/ SockLive(prov[p])
LiveProviders(id) == {p \in Constructed : prov[p].sid = id /\ Live(p)}

\* C1: a second start for the same absent id while the first is suspended in
\* init constructs no second provider; every state has at most one live
\* provider per session id.
C1_OneProviderPerId ==
    \A id \in Ids :
        /\ Cardinality({c \in calls : c.op = "start" /\ c.pc = "init" /\ c.id = id}) <= 1
        /\ Cardinality(LiveProviders(id)) <= 1

\* jobs of the outbound drain executions that are at the provider right now
InFlightOut(p) ==
    LET ex == prov[p].outExec
        F[i \in 0..Len(ex)] ==
            IF i = 0 THEN <<>>
            ELSE IF ex[i].st = "send" THEN Append(F[i - 1], ex[i].job) ELSE F[i - 1]
    IN F[Len(ex)]

\* C2: the sends that were queued are handed to the provider in submission
\* order, none skipped and none lost: what the drain has sent so far, then
\* the job at the provider, then the queue, is the submission sequence.
C2_QueuedSentInOrder ==
    \A p \in Baileys :
        LET handed == hist.sent[p] \o InFlightOut(p) \o prov[p].messageQueue
            WasOffline(j) == \E k \in DOMAIN hist.offline[p] : hist.offline[p][k] = j
        IN /\ hist.queued[p] = handed
           /\ hist.offline[p] = SelectSeq(handed, WasOffline)

\* C2 witness: three sends were queued while the session was not open and
\* the drain that followed the open has handed all three to the provider.
C2_Witness ==
    /\ hist.offline[First] = <<1, 2, 3>>
    /\ hist.sent[First] = <<1, 2, 3>>
    /\ hist.direct[First] = <<>>

\* drain executions in progress, a drain suspended in its cooldown included
OutboundDrains(p) == Len(prov[p].outExec)
InboundDrains(p) == Len(prov[p].inExec) + prov[p].whTimers

\* C3: at most one drain execution per queue of a session is in progress,
\* whatever triggers arrive while one runs or waits in its cooldown.
C3_SingleFlight ==
    \A p \in Constructed :
        /\ OutboundDrains(p) <= 1
        /\ InboundDrains(p) <= 1
        /\ OutboundDrains(p) = 1 => prov[p].isProcessingQueue
        /\ InboundDrains(p) = 1 => prov[p].isProcessingWebhookQueue

\* C3 witness: an inbound drain waits in its cooldown, a further event has
\* arrived meanwhile and the session has gone through an open event, and an
\* outbound drain runs with a further job queued behind it.
C3_Witness ==
    /\ prov[First].whTimers = 1
    /\ Len(prov[First].webhookQueue) = 2
    /\ prov[First].status = "open"
    /\ Len(prov[First].outExec) = 1
    /\ Len(prov[First].messageQueue) >= 1

EventIds == 1..MaxEvents
\* the delivery job of event e waits in a queue or is being attempted
Waiting(e) ==
    \E p \in Constructed :
        \/ \E k \in DOMAIN prov[p].webhookQueue : prov[p].webhookQueue[k].msg = e
        \/ \E k \in DOMAIN prov[p].inExec : prov[p].inExec[k].msg = e

C4_Ceiling ==
    \A e \in EventIds :
        (hist.enq[e] = 1 /\ hist.got4xx[e] = 0) =>
            /\ hist.fails[e] <= maxWebhookRetries
            /\ hist.alerts[e] = (IF hist.fails[e] = maxWebhookRetries THEN 1 ELSE 0)
            /\ hist.fails[e] = maxWebhookRetries => ~Waiting(e)
            /\ (hist.fails[e] < maxWebhookRetries /\ hist.got2xx[e] = 0) => Waiting(e)

C4_NextJob ==
    \A p \in ProvIds, i \in 1..2 :
        ( /\ WebhookDone(p, i, "err")
          /\ hist.got4xx[prov[p].inExec[i].msg] = 0
          /\ prov[p].inExec[i].retryCount = maxWebhookRetries - 1
          /\ prov[p].webhookQueue # <<>> )
        => /\ prov'[p].inExec = <<Head(prov[p].webhookQueue)>>
           /\ prov'[p].webhookQueue = Tail(prov[p].webhookQueue)
           /\ prov'[p].isProcessingWebhookQueue

\* C4: a delivery job that fails transiently maxWebhookRetries times in a
\* row leaves the inbound queue at the 3rd failure and not before, exactly
\* one alert is fired for it, and the same drain goes on with the next job.
C4_TransientDropped == [](C4_Ceiling) /\ [][C4_NextJob]_vars

\* C4 witness: a job failed three times with a transient error, was dropped
\* with one alert, and the job behind it is being attempted.
C4_Witness ==
    \E e \in EventIds, p \in Constructed :
        /\ hist.got4xx[e] = 0 /\ hist.fails[e] = maxWebhookRetries
        /\ hist.alerts[e] = 1 /\ ~Waiting(e)
        /\ \E k \in DOMAIN prov[p].inExec : prov[p].inExec[k].msg > e

\* C5: a delivery job answered with a 4xx is dropped on that attempt, never
\* re-queued or attempted again, with exactly one alert, in both providers.
C5_PermanentDropped ==
    \A e \in EventIds :
        hist.got4xx[e] >= 1 =>
            /\ hist.got4xx[e] = 1
            /\ ~Waiting(e)
            /\ hist.alerts[e] = 1

\* C6: a start on an id whose live session is open changes nothing: no
\* provider is constructed, no init call is made, the store is not written,
\* every provider keeps its state, and the call returns the registered
\* instance.
C6_StartOnOpenIsNoOp ==
    [][\A wh \in StartUrls, cfg \in StartCfgs :
          ( /\ sessions[Sid] # 0
            /\ prov[sessions[Sid]].status = "open"
            /\ StartSession(Sid, wh, cfg) )
          => /\ UNCHANGED <<prov, nextProv, sessions, store, calls>>
             /\ lastOp' = Returned("start", Sid, sessions[Sid], "existing_open")]_vars

\* C6 witness: a start returned the registered, open socket session
C6_Witness ==
    /\ lastOp.op = "start" /\ lastOp.how = "existing_open"
    /\ lastOp.ret = sessions[Sid]
    /\ prov[lastOp.ret].kind = "baileys"
    /\ prov[lastOp.ret].status = "open"

\* init() executions of provider p that have not settled
InitsRunning(p) ==
    Cardinality({c \in calls : c.p = p /\ c.pc = "init"}) + prov[p].inits

\* what has been sent, then what is at the provider, then what waits
OutboundLedger(p) == hist.sent[p] \o InFlightOut(p) \o prov[p].messageQueue

C7_RestartStep ==
    \A wh \in StartUrls, cfg \in StartCfgs :
        LET p == sessions[Sid] IN
        ( /\ p # 0
          /\ prov[p].status = "max_retries_reached"
          /\ StartSession(Sid, wh, cfg) )
        => /\ prov' = [prov EXCEPT ![p].retryCount = 0, ![p].status = "starting"]
           /\ calls' = calls \cup {Call("restart", Sid, p, "init", wh, cfg)}
           /\ InitsRunning(p) = 0
           /\ UNCHANGED <<nextProv, sessions, store, hist>>

C7_RestartReturns ==
    \A c \in calls, ok \in BOOLEAN :
        (c.op = "restart" /\ InitDone(c, ok))
        => /\ lastOp' = Returned("restart", c.id, sessions[c.id], "restarted")
           /\ sessions' = sessions /\ sessions[c.id] = c.p
           /\ prov'[c.p].messageQueue = prov[c.p].messageQueue
           /\ prov'[c.p].webhookQueue = prov[c.p].webhookQueue
           /\ UNCHANGED <<nextProv, store, hist>>

C7_OneInit ==
    \A p \in Baileys :
        /\ InitsRunning(p) <= 1
        /\ (\E c \in calls : c.op = "restart" /\ c.p = p) =>
              hist.queued[p] = OutboundLedger(p)

\* C7: a start on a session in max_retries_reached sets retryCount to 0 and
\* status to starting, makes one init call and no other, and returns the
\* same instance; the queues are untouched by the restart, so the queued
\* sends still leave in submission order.
C7_RestartFailedSession ==
    [](C7_OneInit) /\ [][C7_RestartStep /\ C7_RestartReturns]_vars

\* C7 witness: the restart of a failed session has returned, the retry
\* counter is 0 and two sends queued before it are still waiting
C7_Witness ==
    /\ lastOp = Returned("restart", Sid, First, "restarted")
    /\ prov[First].retryCount = 0
    /\ Len(prov[First].messageQueue) >= 2
    /\ hist.sent[First] = <<>>

\* C8: an update that supplies only a webhook address on a live session
\* makes no logout, no init and no registry removal and constructs nothing;
\* the provider changes in its webhook address only and the stored metadata
\* in its webhook address only, both to the supplied one.
C8_WebhookOnlyUpdate ==
    [][\A wh \in Urls :
          LET p == sessions[Sid] IN
          (p # 0 /\ UpdateSession(Sid, wh, Undef))
          => /\ UNCHANGED <<sessions, calls, nextProv>>
             /\ IF store[Sid] = NoMeta
                THEN UNCHANGED <<prov, store>>
                ELSE /\ prov' = [prov EXCEPT ![p].webhookUrl = wh]
                     /\ store' = [store EXCEPT ![Sid].webhookUrl = wh]]_vars

\* C8 witness: a webhook-only update of a registered socket session
\* returned, and the session and the store hold the new address
C8_Witness ==
    /\ lastOp.op = "update" /\ lastOp.how = "webhook"
    /\ lastOp.ret = sessions[Sid]
    /\ prov[lastOp.ret].kind = "baileys"
    /\ prov[lastOp.ret].webhookUrl = "u2"
    /\ store[Sid].webhookUrl = "u2"

\* the start that an update makes after the removal from the registry:
\* provider p is no longer registered, exactly one provider is constructed,
\* with webhook address w and configuration cfg, and it is registered (REST
\* variant) or being initialised by one init call (socket variant)
C9_StartsAgain(p, w, cfg) ==
    LET np == nextProv IN
    /\ nextProv' = np + 1
    /\ sessions'[Sid] # p
    /\ store'[Sid] = [webhookUrl |-> w, metaConfig |-> cfg]
    /\ prov'[np].sid = Sid /\ prov'[np].webhookUrl = w
    /\ IF UsableMeta(cfg)
       THEN /\ prov'[np].kind = "meta" /\ prov'[np].config = cfg
            /\ sessions'[Sid] = np
            /\ calls' \ calls = {}
       ELSE /\ prov'[np].kind = "baileys"
            /\ calls' \ calls = {Call("update", Sid, np, "init", w, cfg)}

C9_UpdateStep ==
    \A wh \in Urls \cup {Undef}, cfg \in {"m1", NoCfg} :
        LET p == sessions[Sid]
            w == IF wh = Undef THEN store[Sid].webhookUrl ELSE wh
        IN (p # 0 /\ store[Sid] # NoMeta /\ UpdateSession(Sid, wh, cfg))
           => IF LogoutSuspends(Reg, Sid)
              THEN /\ calls' = calls \cup {Call("update", Sid, p, "logout", w, cfg)}
                   /\ calls' # calls
                   /\ store' = [store EXCEPT ![Sid] = [webhookUrl |-> w, metaConfig |-> cfg]]
                   /\ UNCHANGED <<sessions, nextProv>>
              ELSE C9_StartsAgain(p, w, cfg)

C9_LogoutStep ==
    \A c \in calls, ok \in BOOLEAN :
        (c.op = "update" /\ c.pc = "logout" /\ LogoutDone(c, ok))
        => /\ C9_StartsAgain(c.p, c.wh, c.cfg)
           /\ c \notin calls'
           /\ ~SockLive(prov'[c.p]) \/ ~ok

\* C9: an update that supplies a transport config on a live session starts
\* it again once: one logout of the current provider is awaited, the
\* provider leaves the registry, and one start constructs one provider and
\* initialises it; its webhook address is the supplied one or, when none
\* was supplied, the persisted one, and the store holds the merged record.
C9_ConfigUpdateRestartsOnce == [][C9_UpdateStep /\ C9_LogoutStep]_vars

\* C10: a socket session is in max_retries_reached exactly when its retry
\* counter is above maxRetry; in that status no reconnection timer is
\* pending and no init runs, and the status is left only by a restart
\* request, which puts it in starting.
C10_Inv ==
    \A p \in Baileys :
        /\ prov[p].status = "max_retries_reached" <=> prov[p].retryCount > maxRetry
        /\ prov[p].status = "max_retries_reached" =>
              prov[p].timers = 0 /\ InitsRunning(p) = 0

C10_Leave ==
    \A p \in Baileys :
        /\ (prov[p].status # "max_retries_reached" /\ prov'[p].status = "max_retries_reached")
              => prov'[p].timers = 0 /\ prov[p].timers = 0
        /\ (prov[p].status = "max_retries_reached" /\ prov'[p].status # "max_retries_reached")
              => /\ prov'[p].status = "starting"
                 /\ \E c \in calls' \ calls : c.p = p /\ c.op \in {"restart", "qr"}

C10_MaxRetriesDeadEnd == [](C10_Inv) /\ [][C10_Leave]_vars

\* C10 witness: the sixth close in a row has put the session in
\* max_retries_reached
C10_Witness ==
    /\ prov[First].status = "max_retries_reached"
    /\ prov[First].retryCount = maxRetry + 1
    /\ prov[First].timers = 0

\* a drain execution of p is in its pause after a successful send
Pausing(p) == \E i \in DOMAIN prov[p].outExec : prov[p].outExec[i].st = "sleep"

C11_Queued ==
    \A p \in Baileys :
        /\ prov[p].status = "starting" =>
              /\ prov[p].messageQueue = hist.queued[p]
              /\ hist.sent[p] = <<>> /\ InFlightOut(p) = <<>>
              /\ hist.direct[p] = <<>>
              /\ ~prov[p].isProcessingQueue
        /\ hist.queued[p] = OutboundLedger(p)
        /\ Len(prov[p].outExec) <= 1

C11_Calls ==
    \A p \in Baileys :
        (InFlightOut(p)' # <<>> /\ InFlightOut(p) = <<>>)
        => /\ prov[p].messageQueue # <<>>
           /\ InFlightOut(p)' = <<Head(prov[p].messageQueue)>>
           /\ \/ Pausing(p)
              \/ /\ prov[p].outExec = <<>>
                 /\ prov[p].status # "open" /\ prov'[p].status = "open"

Drained(p) ==
    /\ prov[p].messageQueue = <<>> /\ prov[p].outExec = <<>>
    /\ ~prov[p].isProcessingQueue
    /\ hist.sent[p] = hist.queued[p]

\* C11: sends made while the socket session is starting are queued and none
\* reaches the provider; once the session is open and every send is
\* accepted, the jobs reach the provider one at a time in submission order,
\* a job after the first only when the pause after the previous send is
\* over, and the drain ends with the queue empty and the flag cleared.
C11_PairingDrain ==
    /\ [](C11_Queued) /\ [][C11_Calls]_vars
    /\ (prov[First].status = "open" ~> Drained(First))

\* C11 witness: three sends were queued while starting, the session opened,
\* and the drain has handed over all three and ended
C11_Witness ==
    /\ prov[First].status = "open"
    /\ hist.offline[First] = <<1, 2, 3>>
    /\ hist.direct[First] = <<>>
    /\ Drained(First)

\* a socket session after its logged-out close: closed, its socket ended,
\* no reconnection timer and no init of it anywhere
Terminal(p) ==
    /\ prov[p].kind = "baileys" /\ prov[p].status = "close"
    /\ prov[p].sock = "ended"
    /\ prov[p].timers = 0 /\ InitsRunning(p) = 0

C12_Close ==
    \A p \in ProvIds :
        ConnectionClose(p, TRUE)
        => /\ prov'[p].status = "close" /\ prov'[p].sock = "ended"
           /\ prov'[p].timers = 0 /\ prov[p].timers = 0
           /\ prov'[p].retryCount = prov[p].retryCount
           /\ sessions[prov[p].sid] = p =>
                 /\ sessions'[prov[p].sid] = 0
                 /\ store'[prov[p].sid] = NoMeta
                 /\ calls' = calls

C12_Stays ==
    \A p \in ProvIds :
        Terminal(p) => /\ prov'[p].status = "close"
                       /\ prov'[p].retryCount = prov[p].retryCount
                       /\ prov'[p].timers = 0 /\ prov'[p].sock = "ended"
                       /\ sessions'[prov[p].sid] # p

\* C12: a close with the logged-out reason schedules no reconnection timer
\* and leaves retryCount as it was; the session leaves the registry and its
\* record leaves the store; from then on the session object keeps the
\* status close, gets no socket and no timer, and is never registered again.
C12_LoggedOutIsTerminal == [][C12_Close /\ C12_Stays]_vars

\* C12 witness: a session that has been open and has sent a message got
\* the logged-out close after an earlier close had been retried, and is
\* gone from the registry and the store
C12_Witness ==
    /\ Terminal(First) /\ calls = {}
    /\ hist.sent[First] # <<>>
    /\ prov[First].retryCount > 0
    /\ sessions[Sid] = 0 /\ store[Sid] = NoMeta

\* the delivery of event e has been attempted, or is being attempted
Attempted(e) ==
    \/ hist.got2xx[e] + hist.got4xx[e] + hist.fails[e] > 0
    \/ \E p \in Constructed : \E k \in DOMAIN prov[p].inExec : prov[p].inExec[k].msg = e

\* C13: within a session the inbound events are forwarded in arrival order:
\* when a delivery job is attempted for the first time, every job enqueued
\* before it has left the queue, delivered or dropped; the queue itself is
\* in arrival order, whatever cooldowns and arrivals come in between.
C13_InboundFifo ==
    /\ \A e1, e2 \in EventIds :
          (e1 < e2 /\ hist.enq[e1] = 1 /\ Attempted(e2)) => ~Waiting(e1)
    /\ \A p \in Constructed :
          \A i, j \in DOMAIN prov[p].webhookQueue :
             i < j => prov[p].webhookQueue[i].msg < prov[p].webhookQueue[j].msg

\* C13 witness: the first event failed once and was delivered after its
\* cooldown; the second, enqueued behind it, is being attempted
C13_Witness ==
    /\ hist.fails[1] >= 1 /\ hist.got2xx[1] = 1
    /\ hist.enq[2] = 1
    /\ \E k \in DOMAIN prov[First].inExec : prov[First].inExec[k].msg = 2

\* C14: an update for an id without persisted metadata fails with NotFound
\* and changes nothing: store, registry, pending calls and every provider
\* are as they were.
C14_UpdateNotFound ==
    [][\A wh \in Urls \cup {Undef}, cfg \in Cfgs \cup {NoCfg, Undef} :
          (store[Sid] = NoMeta /\ UpdateSession(Sid, wh, cfg))
          => /\ UNCHANGED <<prov, nextProv, sessions, store, calls>>
             /\ lastOp' = Returned("update", Sid, 0, "notfound")]_vars

\* C14 witness: an update was refused for an id whose session had been
\* started and deleted before
C14_Witness ==
    /\ lastOp = Returned("update", Sid, 0, "notfound")
    /\ store[Sid] = NoMeta
    /\ nextProv > First

C15_Direct ==
    (DeleteSession(Sid) /\ calls' = calls)
    => /\ lastOp'.op = "delete"
       /\ lastOp'.how = (IF sessions[Sid] # 0 \/ store[Sid] # NoMeta
                         THEN "true" ELSE "false")
       /\ sessions'[Sid] = 0 /\ store'[Sid] = NoMeta

C15_AfterLogout ==
    \A c \in calls, ok \in BOOLEAN :
        (c.op = "delete" /\ LogoutDone(c, ok))
        => /\ lastOp' = Returned("delete", Sid, 0, "true")
           /\ sessions'[Sid] = 0 /\ store'[Sid] = NoMeta

\* C15: delete returns true exactly when a live session or a persisted
\* record existed for the id and false otherwise; a live session is logged
\* out first, a failed logout does not stop the delete, and when delete
\* returns the id is in neither the registry nor the store.
C15_DeleteResult == [][C15_Direct /\ C15_AfterLogout]_vars

\* the events whose delivery job is being attempted by provider p
InFlightIn(p) == {prov[p].inExec[k].msg : k \in DOMAIN prov[p].inExec}

\* C16: once a delete has returned, no job that was pending in a queue of
\* the deleted session is handed to the provider or POSTed to the webhook,
\* a job whose drain was waiting in a cooldown included.
C16_DeleteDiscardsQueues ==
    [][(lastOp.op = "delete" /\ sessions[Sid] = 0)
       => \A p \in Constructed :
             /\ InFlightIn(p)' \subseteq InFlightIn(p)
             /\ InFlightOut(p)' \in {<<>>, InFlightOut(p)}]_vars

\* a socket session that has left the registry (deleted or logged out)
\* while a reconnection timer of it is still pending
StaleTimerPending(p) ==
    /\ prov[p].timers > 0
    /\ sessions[prov[p].sid] # p
    /\ \A c \in calls : c.p # p

\* C17: a reconnection timer that fires after its session was logged out
\* or deleted does not call init: the session is never initialised again
\* by a stale timer.
C17_StaleTimerGuard ==
    [][\A p \in Baileys :
          StaleTimerPending(p) => prov'[p].inits <= prov[p].inits]_vars

\* C18: a text send on a socket session is queued, as one job at the tail,
\* with the answer queued, exactly when the session is not open or an
\* outbound drain is running; otherwise it goes to the provider at once and
\* the queue is left as it is.
C18_QueuedIff ==
    [][\A p \in Baileys :
          (sessions[Sid] = p /\ SendMessage(Sid))
          => IF prov[p].status # "open" \/ OutboundDrains(p) >= 1
             THEN /\ prov'[p].messageQueue = Append(prov[p].messageQueue, nextMsg)
                  /\ lastOp' = Returned("send", Sid, nextMsg, "queued")
                  /\ hist'.direct = hist.direct /\ hist'.sent = hist.sent
                  /\ prov'[p].outExec = prov[p].outExec
             ELSE /\ prov' = prov
                  /\ lastOp' = Returned("send", Sid, nextMsg, "direct")
                  /\ hist'.direct[p] = Append(hist.direct[p], nextMsg)]_vars

\* C18 witness: an open session whose drain is running has queued the send
\* that was just made behind the job that waits, and an earlier send had
\* gone to the provider directly
C18_Witness ==
    /\ prov[First].status = "open" /\ OutboundDrains(First) = 1
    /\ lastOp.op = "send" /\ lastOp.how = "queued"
    /\ Len(prov[First].messageQueue) >= 1
    /\ prov[First].messageQueue[Len(prov[First].messageQueue)] = lastOp.ret
    /\ hist.direct[First] # <<>>

\* the delivery job of event e, not yet retried, is at the tail of the
\* inbound queue of provider record pr or is being attempted
Enqueued(pr, e) ==
    LET job == [msg |-> e, retryCount |-> 0] IN
    \/ pr.webhookQueue # <<>> /\ pr.webhookQueue[Len(pr.webhookQueue)] = job
    \/ \E k \in DOMAIN pr.inExec : pr.inExec[k] = job

C19_Socket ==
    \A p \in Baileys, fromMe \in BOOLEAN, hasContent \in BOOLEAN :
        MessagesUpsert(p, fromMe, hasContent)
        => IF ~fromMe /\ hasContent
           THEN Enqueued(prov'[p], nextEv) /\ hist'.enq[nextEv] = 1
           ELSE prov' = prov /\ hist'.enq[nextEv] = 0

C19_Rest ==
    (sessions[Sid] # 0 /\ MetaIncoming(Sid))
    => Enqueued(prov'[sessions[Sid]], nextEv) /\ hist'.enq[nextEv] = 1

\* C19: every inbound event that is not self-originated and has content
\* becomes a delivery job with retryCount 0 at the tail of the session's
\* inbound queue, whatever the configuration of the session; a
\* self-originated or content-less event is never enqueued.
C19_EveryEventEnqueued == [][C19_Socket /\ C19_Rest]_vars

\* the queue of provider record r is being drained: its flag is set, and its
\* former head, when the drain was started on the idle queue of record pr, is
\* the job being attempted
OutboundTriggered(pr, r) ==
    /\ r.messageQueue # <<>> => r.isProcessingQueue
    /\ (pr.messageQueue # <<>> /\ ~pr.isProcessingQueue)
       => /\ r.isProcessingQueue /\ r.messageQueue = Tail(pr.messageQueue)
          /\ r.outExec = Append(pr.outExec, [st |-> "send", job |-> Head(pr.messageQueue)])

InboundTriggered(pr, r) ==
    /\ r.webhookQueue # <<>> => r.isProcessingWebhookQueue
    /\ (pr.webhookQueue # <<>> /\ ~pr.isProcessingWebhookQueue)
       => /\ r.isProcessingWebhookQueue /\ r.webhookQueue = Tail(pr.webhookQueue)
          /\ r.inExec = Append(pr.inExec, Head(pr.webhookQueue))

C20_Step ==
    \A p \in Baileys :
        (prov[p].status # "open" /\ prov'[p].status = "open")
        => /\ prov'[p].retryCount = 0
           /\ prov'[p].qr = FALSE
           /\ OutboundTriggered(prov[p], prov'[p])
           /\ InboundTriggered(prov[p], prov'[p])

\* C20: every step that takes a socket session into status open leaves its
\* retryCount at 0 and its qr cleared, and in that same step starts the
\* drain of the outbound queue and of the inbound queue (each unless it is
\* empty or already being drained).
C20_OpenResetsAndDrains == [][C20_Step]_vars

\* C20 witness: the session was open (a send went out directly), lost its
\* connection (retryCount 1) and queued a send, showed a new pairing code,
\* and has opened again: the count and the code are cleared and the drain
\* attempts the queued send, while an inbound event waits for its retry
C20_Witness ==
    /\ prov[First].status = "open" /\ prov[First].sock = "open"
    /\ prov[First].retryCount = 0 /\ prov[First].qr = FALSE
    /\ hist.direct[First] = <<1>> /\ hist.offline[First] = <<2>>
    /\ prov[First].isProcessingQueue
    /\ prov[First].outExec = <<[st |-> "send", job |-> 2]>>
    /\ prov[First].isProcessingWebhookQueue /\ prov[First].webhookQueue # <<>>

C21_Resets ==
    \A p \in Baileys :
        (prov[p].status # "open" /\ prov'[p].status = "open")
        => prov'[p].retryCount = 0

C21_OnlyThere ==
    \A p \in Baileys :
        (prov[p].retryCount > 0 /\ prov'[p].retryCount = 0)
        => (prov[p].status # "open" /\ prov'[p].status = "open")

\* C21: retryCount goes back to 0 exactly on a step into status open: every
\* step into open leaves it at 0, and no other step (start, update, send,
\* disconnect, timer) takes a non-zero retryCount to 0.
C21_ResetOnlyOnOpen == [][C21_Resets /\ C21_OnlyThere]_vars

\* startSession was called for id and got as far as constructing a provider
Started(id) ==
    \/ sessions[id] # 0
    \/ \E c \in calls : c.id = id /\ c.op = "start" /\ c.pc = "init"

C22_Step ==
    \A failing \in SUBSET Ids :
        RestoreSessions(failing)
        => /\ lastOp'.op = "restore" /\ lastOp'.how = "done"
           /\ \A id \in Ids :
                 (HasMetadata(store, id) /\ id \notin failing) <=> Started(id)'
           /\ store' = store

\* C22: restoreSessions starts every persisted record; the failure of one
\* record's start is contained: every other record is still started and
\* restoreSessions itself returns normally.
C22_RestoreContainsFailures == [][C22_Step]_vars

\* C22 witness: two records were persisted, the start of the first one
\* failed, and the second one was started all the same
C22_Witness ==
    /\ lastOp.op = "restore" /\ lastOp.ret = 1
    /\ HasMetadata(store, 1) /\ HasMetadata(store, 2)
    /\ ~Started(1) /\ Started(2)

\* everything but provider p and the registration of id is left as it was
OthersKept(p, id) ==
    /\ \A q \in ProvIds \ {p} : prov'[q] = prov[q]
    /\ \A i \in Ids \ {id} : sessions'[i] = sessions[i]
    /\ store' = store /\ calls' \subseteq calls /\ nextProv' = nextProv

C23_Start ==
    \A c \in calls :
        InitDone(c, FALSE)
        => /\ prov'[c.p].status = "error"
           /\ lastOp' = Returned(c.op, c.id, c.p, "created")
           /\ sessions'[c.id] = c.p
           /\ OthersKept(c.p, c.id)

C23_Timer ==
    \A p \in Baileys :
        TimerInitDone(p, FALSE)
        => /\ prov'[p].status = "error"
           /\ sessions' = sessions /\ lastOp' = lastOp
           /\ OthersKept(p, prov[p].sid)

\* C23: an exception inside provider init is contained: the session's status
\* becomes error, the start that awaited the init returns the session to
\* its caller as usual, and the registry, the store and every other session
\* are left as they were.
C23_InitFailureContained == [][C23_Start /\ C23_Timer]_vars

\* C23 witness: two sessions were restored, the init of the first one
\* failed and the second one is open
C23_Witness ==
    /\ sessions[1] # 0 /\ sessions[2] # 0
    /\ prov[sessions[1]].kind = "baileys" /\ prov[sessions[1]].status = "error"
    /\ lastOp.op = "start" /\ lastOp.id = 1
    /\ prov[sessions[2]].kind = "baileys" /\ prov[sessions[2]].status = "open"

\* the REST providers that are registered under their id
RestRegistered == {p \in ProvIds : prov[p].kind = "meta" /\ sessions[prov[p].sid] = p}

\* C24: a registered REST session has status open, retryCount 0, no
\* reconnection timer and no init under way, no pairing code, and no outbound
\* job queued or being drained: each of its sends went to the provider
\* directly.
C24_RestIsStateless ==
    \A p \in RestRegistered :
        /\ prov[p].status = "open"
        /\ prov[p].retryCount = 0 /\ prov[p].timers = 0 /\ prov[p].inits = 0
        /\ prov[p].qr = FALSE
        /\ prov[p].messageQueue = <<>> /\ prov[p].outExec = <<>>
        /\ ~prov[p].isProcessingQueue
        /\ hist.queued[p] = <<>>

\* C24 witness: a REST session took an inbound event, was sent through,
\* restarted by an update of its credentials (the earlier provider was
\* logged out) and sent through again
C24_Witness ==
    /\ sessions[Sid] = 2 /\ prov[2].kind = "meta" /\ prov[2].status = "open"
    /\ prov[1].kind = "meta" /\ prov[1].status = "close"
    /\ hist.direct[1] # <<>> /\ hist.direct[2] # <<>>
    /\ hist.enq[1] = 1

C25_Construct ==
    \A wh \in StartUrls, cfg \in StartCfgs :
        (sessions[Sid] = 0 /\ StartSession(Sid, wh, cfg))
        => LET np == nextProv IN
           /\ store'[Sid] = [webhookUrl |-> wh, metaConfig |-> cfg]
           /\ prov'[np].kind = IF cfg \in Cfgs THEN "meta" ELSE "baileys"
           /\ prov'[np].sid = Sid /\ prov'[np].webhookUrl = wh
           /\ nextProv' = np + 1
           /\ IF cfg \in Cfgs
              THEN /\ prov'[np].config = cfg /\ sessions'[Sid] = np
                   /\ lastOp' = Returned("start", Sid, np, "created")
              ELSE /\ sessions'[Sid] = 0
                   /\ Call("start", Sid, np, "init", wh, cfg) \in calls'

C25_Register ==
    \A c \in calls, ok \in BOOLEAN :
        (c.op = "start" /\ InitDone(c, ok))
        => /\ sessions'[c.id] = c.p
           /\ lastOp' = Returned("start", c.id, c.p, "created")

\* C25: startSession for an id that is absent saves the metadata it was
\* given and constructs a REST provider exactly when the configuration has
\* both phone id and token, a socket provider otherwise; the provider is
\* registered under the id once its init has settled.
C25_StartSelectsProvider == [][C25_Construct /\ C25_Register]_vars

\* C25 witness: a start with a configuration that lacks a credential has
\* returned a registered socket session
C25_Witness ==
    /\ lastOp = Returned("start", Sid, sessions[Sid], "created")
    /\ sessions[Sid] # 0 /\ prov[sessions[Sid]].kind = "baileys"
    /\ store[Sid].metaConfig = BadCfg

C27_Start ==
    \A wh \in StartUrls :
        (sessions[Sid] = 0 /\ StartSession(Sid, wh, BadCfg))
        => /\ UNCHANGED <<prov, nextProv, sessions, store, calls>>
           /\ lastOp'.op = "start" /\ lastOp'.how = "error"

C27_Update ==
    \A wh \in Urls \cup {Undef} :
        UpdateSession(Sid, wh, BadCfg)
        => /\ UNCHANGED <<prov, nextProv, sessions, store, calls>>
           /\ lastOp'.op = "update" /\ lastOp'.how \in {"error", "notfound"}

\* C27: a start or an update whose transport configuration lacks the phone
\* id or the token is rejected: the caller gets an error and no provider is
\* constructed, nothing is registered and nothing is saved.
C27_BadCredentialsRejected == [][C27_Start /\ C27_Update]_vars

Min(a, b) == IF a <= b THEN a ELSE b

\* d = min(baseDelay * 2^(k-1) + jitter, capDelay) for some jitter in 0..jitterMax
DelayOfAttempt(d, k) ==
    /\ Min(baseDelay * 2 ^ (k - 1), capDelay) <= d
    /\ d <= Min(baseDelay * 2 ^ (k - 1) + jitterMax, capDelay)

C26_Step ==
    \A p \in Baileys :
        prov'[p].timers = prov[p].timers + 1
        => LET k == prov'[p].retryCount IN
           /\ k = prov[p].retryCount + 1 /\ k \in 1..maxRetry
           /\ DelayOfAttempt(prov'[p].delay, k)
           /\ prov'[p].delay <= capDelay

\* C26: the reconnection timer scheduled by the k-th recoverable disconnect
\* in a row, k from 1 to maxRetry, has a delay of
\* min(5000 * 2^(k-1) + jitter, 300000) ms for a jitter between 0 and 2000,
\* so it is never longer than 300000 ms.
C26_BackoffDelay == [][C26_Step]_vars

\* C26 witness: the fifth disconnect in a row has scheduled its timer, 80 s
C26_Witness ==
    /\ prov[First].retryCount = maxRetry /\ prov[First].timers = 1
    /\ prov[First].delay = 80000
    /\ prov[First].status = "close"

C28_Step ==
    \A p \in Baileys, i \in 1..2 :
        SendDone(p, i, FALSE)
        => LET job == prov[p].outExec[i].job IN
           /\ prov'[p].messageQueue = <<job>> \o prov[p].messageQueue
           /\ prov'[p].outExec = RemoveAt(prov[p].outExec, i)
           /\ ~prov'[p].isProcessingQueue
           /\ hist'.sent = hist.sent
           /\ OutboundLedger(p)' = OutboundLedger(p)

\* C28: when the provider call of the drain's job fails, the job goes back
\* to the head of the outbound queue, no job behind it is attempted, the
\* drain ends with isProcessingQueue false, and the jobs not yet sent are
\* the same, in the same order, as before the attempt.
C28_FailedSendStopsDrain == [][C28_Step]_vars

\* C28 witness: the first queued job was sent, the attempt of the second one
\* failed with a third one behind it: the session is open, no drain runs and
\* both wait in order
C28_Witness ==
    /\ prov[First].status = "open"
    /\ hist.sent[First] = <<1>>
    /\ prov[First].messageQueue = <<2, 3>>
    /\ prov[First].outExec = <<>> /\ ~prov[First].isProcessingQueue

C29_Step ==
    \A p \in Baileys :
        (sessions[Sid] = p /\ SendMessage(Sid) /\ lastOp'.how = "direct")
        => prov[p].messageQueue = <<>> /\ InFlightOut(p) = <<>>

\* C29: a send goes to the provider directly only when no earlier job waits
\* in the outbound queue or is being attempted, so a waiting job is never
\* overtaken, also after a drain has stopped on a failure.
C29_NoOvertaking == [][C29_Step]_vars

C30_Step ==
    \A p \in Baileys :
        (sessions[Sid] = p /\ SendMedia(Sid)
            /\ (prov[p].status # "open" \/ prov[p].isProcessingQueue))
        => /\ prov'[p].messageQueue = Append(prov[p].messageQueue, nextMsg)
           /\ hist'.direct = hist.direct

\* C30: a media send (image, document, audio, video) made on a socket
\* session that is not open, or whose outbound drain is running, is appended
\* to the outbound queue behind the waiting jobs and is not handed to the
\* provider in that step.
C30_MediaQueued == [][C30_Step]_vars

Range(s) == {s[i] : i \in DOMAIN s}
NoDup(s) == \A i, j \in DOMAIN s : i # j => s[i] # s[j]

\* the outbound jobs of p that wait: at the provider or in the queue
OutboundPending(p) == InFlightOut(p) \o prov[p].messageQueue

C31_Inv ==
    \A p \in Baileys :
        /\ NoDup(hist.sent[p]) /\ NoDup(OutboundPending(p))
        /\ Range(hist.sent[p]) \cap Range(OutboundPending(p)) = {}
        /\ Range(hist.sent[p]) \cup Range(OutboundPending(p)) = Range(hist.queued[p])

C31_Step ==
    \A p \in Baileys :
        /\ hist'.sent[p] # hist.sent[p]
              => \E i \in DOMAIN prov[p].outExec :
                    /\ SendDone(p, i, TRUE)
                    /\ hist'.sent[p] = Append(hist.sent[p], prov[p].outExec[i].job)
        /\ Range(OutboundPending(p)) \ Range(OutboundPending(p)')
              \subseteq Range(hist'.sent[p]) \ Range(hist.sent[p])

\* C31: no outbound job is sent twice: over sends, drains, failed attempts,
\* disconnects and restarts each queued job has at most one successful
\* provider call, and a job leaves the queued and in-flight jobs only in the
\* step in which its provider call succeeds.
C31_NoDuplicateSend == [](C31_Inv) /\ [][C31_Step]_vars

\* C31 witness: the attempt of job 1 failed (send 2 then found the session
\* open with no drain and went out directly), the session lost its
\* connection and opened again, and job 1 is at the provider for the second
\* time, not sent so far and no longer in the queue
C31_Witness ==
    /\ prov[First].status = "open"
    /\ hist.direct[First] = <<2>>
    /\ hist.queued[First] = <<1>> /\ hist.sent[First] = <<>>
    /\ prov[First].outExec = <<[st |-> "send", job |-> 1]>>
    /\ prov[First].messageQueue = <<>>

\* the delivery job after one more failed attempt
Retried(job) == [job EXCEPT !.retryCount = @ + 1]

C32_Suspend ==
    \A p \in Constructed, i \in 1..2 :
        ( /\ WebhookDone(p, i, "err")
          /\ prov[p].inExec[i].retryCount + 1 < maxWebhookRetries )
        => /\ prov'[p].webhookQueue = <<Retried(prov[p].inExec[i])>> \o prov[p].webhookQueue
           /\ prov'[p].inExec = <<>>
           /\ prov'[p].whTimers = 1
           /\ prov'[p].isProcessingWebhookQueue

C32_Cooldown ==
    \A p \in Constructed :
        (prov[p].whTimers > 0 /\ ~CooldownTimer(p))
        => /\ prov'[p].isProcessingWebhookQueue
           /\ prov'[p].inExec = <<>>
           /\ prov'[p].whTimers = prov[p].whTimers
           /\ \/ prov'[p].webhookQueue = prov[p].webhookQueue
              \/ prov'[p].webhookQueue =
                    Append(prov[p].webhookQueue, [msg |-> nextEv, retryCount |-> 0])

C32_Resume ==
    \A p \in Constructed :
        (prov[p].whTimers > 0 /\ CooldownTimer(p))
        => /\ prov'[p].inExec = <<Head(prov[p].webhookQueue)>>
           /\ prov'[p].webhookQueue = Tail(prov[p].webhookQueue)
           /\ prov'[p].isProcessingWebhookQueue
           /\ prov'[p].whTimers = 0

\* C32: after a transient failure that leaves retries, the job is back at
\* the head of the inbound queue with its retryCount incremented and the
\* drain is suspended: until the cooldown timer fires the flag stays set, no
\* job is attempted and arriving events are appended behind it; the step of
\* the timer attempts that same job again.
C32_CooldownSuspendsDrain == [][C32_Suspend /\ C32_Cooldown /\ C32_Resume]_vars

\* C32 witness: the first event failed once and went back to the head, in
\* front of the second event; the timer has fired and the first job is
\* attempted again with the second one still waiting behind it
C32_Witness ==
    \E p \in Constructed :
        /\ prov[p].inExec = <<[msg |-> 1, retryCount |-> 1]>>
        /\ prov[p].webhookQueue = <<[msg |-> 2, retryCount |-> 0]>>
        /\ prov[p].whTimers = 0 /\ prov[p].isProcessingWebhookQueue
        /\ hist.fails[1] = 1

\* the attempts made so far to deliver event e, the one under way included
Attempts(e) ==
    hist.got2xx[e] + hist.got4xx[e] + hist.fails[e]
    + Cardinality({p \in Constructed : e \in InFlightIn(p)})

\* C33: retries are bounded: a delivery job is attempted at most
\* maxWebhookRetries times, a job that waits or is being attempted carries
\* the number of its failed attempts as retryCount, between 0 and
\* maxWebhookRetries - 1, and a job delivered with a 2xx is not waiting, was
\* delivered once and has fired no alert.
C33_BoundedRetries ==
    /\ \A e \in EventIds :
          /\ Attempts(e) <= maxWebhookRetries
          /\ hist.got2xx[e] >= 1 =>
                hist.got2xx[e] = 1 /\ ~Waiting(e) /\ hist.alerts[e] = 0
    /\ \A p \in Constructed :
          /\ \A k \in DOMAIN prov[p].webhookQueue :
                LET job == prov[p].webhookQueue[k] IN
                /\ job.retryCount \in 0..(maxWebhookRetries - 1)
                /\ job.retryCount = hist.fails[job.msg] + hist.got4xx[job.msg]
          /\ \A k \in DOMAIN prov[p].inExec :
                LET job == prov[p].inExec[k] IN
                /\ job.retryCount \in 0..(maxWebhookRetries - 1)
                /\ job.retryCount = hist.fails[job.msg] + hist.got4xx[job.msg]

\* C33 witness: the first event failed twice and was delivered at its third
\* attempt, with no alert, and the second event is being attempted
C33_Witness ==
    /\ hist.fails[1] + hist.got4xx[1] = maxWebhookRetries - 1
    /\ hist.got2xx[1] = 1 /\ hist.alerts[1] = 0
    /\ \E p \in Constructed : InFlightIn(p) = {2}

\* the inbound queue of p is empty and no drain of it runs or waits
InboundIdle(p) ==
    /\ prov[p].webhookQueue = <<>> /\ prov[p].inExec = <<>>
    /\ prov[p].whTimers = 0
    /\ ~prov[p].isProcessingWebhookQueue

\* C34: when every fetch settles and every cooldown timer fires, each
\* enqueued delivery job leaves the inbound queue, delivered or dropped,
\* whatever the webhook answers, and a session whose inbound queue is empty
\* gets to an empty queue with no drain and isProcessingWebhookQueue false.
C34_InboundTerminates ==
    /\ \A e \in EventIds : (hist.enq[e] = 1) ~> ~Waiting(e)
    /\ \A e \in EventIds :
          (hist.enq[e] = 1) ~>
              (hist.got2xx[e] = 1 \/ hist.got4xx[e] >= 1 \/ hist.alerts[e] = 1)
    /\ (prov[First].webhookQueue = <<>>) ~> InboundIdle(First)

\* C34 witness: the first event was dropped after its third failure, the
\* second one was delivered after a failure, and the drain has ended
C34_Witness ==
    /\ hist.fails[1] = maxWebhookRetries /\ hist.alerts[1] = 1
    /\ hist.fails[2] = 1 /\ hist.got2xx[2] = 1
    /\ prov[First].kind # "free" /\ InboundIdle(First)

\* a provider call of the drain is rejected in this step
SendFails == \E i \in 1..2 : SendDone(First, i, FALSE)

\* C35: if the session is open from some point on and from some point on no
\* provider call is rejected, every send that was answered queued is
\* eventually sent by the drain, and the outbound queue ends up empty with
\* isProcessingQueue false.
C35_QueuedEventuallySent ==
    (<>[](prov[First].status = "open") /\ <>[][~SendFails]_vars)
    => /\ \A j \in 1..MaxSends :
             (j \in Range(hist.queued[First])) ~> (j \in Range(hist.sent[First]))
       /\ <>[](prov[First].messageQueue = <<>> /\ ~prov[First].isProcessingQueue)

\* what belongs to session id: its registration, its persisted record and
\* every provider object constructed for it, with its status, retryCount,
\* webhook address, queues, flags, timers and drains
SessionView(id) ==
    [reg |-> sessions[id], meta |-> store[id],
     objs |-> [p \in ProvIds |-> IF prov[p].sid = id THEN prov[p] ELSE Free]]

\* C36: sessions are isolated: every step (a send, an inbound event, a
\* connection update, a drain step, a timer, a start, an update, a delete)
\* changes the state of at most one session and leaves every other session
\* as it was.
C36_SessionsIsolated ==
    [][Cardinality({id \in Ids : SessionView(id)' # SessionView(id)}) <= 1]_vars

\* C36 witness: one socket session has drained a queued send, had its
\* webhook address updated and has an inbound job waiting in its cooldown,
\* while another socket session, not yet open, holds a queued send
C36_Witness ==
    \E p, q \in ProvIds :
        /\ prov[p].sid = Sid /\ prov[q].sid = Sid + 1
        /\ prov[p].kind = "baileys" /\ prov[q].kind = "baileys"
        /\ prov[p].status = "open" /\ hist.sent[p] # <<>>
        /\ prov[p].webhookUrl = "u2" /\ prov[p].whTimers = 1
        /\ prov[p].isProcessingWebhookQueue
        /\ prov[q].status # "open" /\ prov[q].messageQueue # <<>>
        /\ prov[q].webhookUrl = "u1"

\* C37: a draining flag is never stuck: isProcessingQueue is set only while
\* an outbound drain execution is in progress, isProcessingWebhookQueue only
\* while an inbound drain execution is in progress or waits for its cooldown
\* timer; so when a flag is clear and its queue is not empty, a call of the
\* drain function starts a drain execution on the head of the queue.
C37_FlagNeverStuck ==
    \A p \in Constructed :
        /\ prov[p].isProcessingQueue => OutboundDrains(p) >= 1
        /\ prov[p].isProcessingWebhookQueue => InboundDrains(p) >= 1
        /\ (~prov[p].isProcessingQueue /\ prov[p].messageQueue # <<>>)
              => LET r == processMessageQueue(prov[p]) IN
                 /\ r.isProcessingQueue
                 /\ r.outExec = Append(prov[p].outExec,
                                       [st |-> "send", job |-> Head(prov[p].messageQueue)])
        /\ (~prov[p].isProcessingWebhookQueue /\ prov[p].webhookQueue # <<>>)
              => LET r == processWebhookQueue(prov[p]) IN
                 /\ r.isProcessingWebhookQueue
                 /\ r.inExec = Append(prov[p].inExec, Head(prov[p].webhookQueue))

\* C37 witness: the outbound drain has stopped on a failed send: the session
\* is open, the job is back in the queue and the flag is clear, while the
\* inbound drain waits for its cooldown timer with its flag set
C37_Witness ==
    /\ prov[First].status = "open"
    /\ prov[First].messageQueue # <<>> /\ prov[First].outExec = <<>>
    /\ ~prov[First].isProcessingQueue
    /\ prov[First].whTimers = 1 /\ prov[First].inExec = <<>>
    /\ prov[First].isProcessingWebhookQueue

\* C38: after any interleaving of start, update and delete calls for one
\* id, a delete that runs while a start is suspended in init included, every
\* session in the registry has its metadata record in the store, so an
\* update of a live session is never answered NotFound.
C38_LiveSessionHasRecord ==
    \A id \in Ids : sessions[id] # 0 => HasMetadata(store, id)

\* C39: whenever no registry call is suspended, the webhook address and the
\* transport configuration of the record persisted for an id are those of
\* the session registered under that id (a socket session holds no usable
\* configuration), after any interleaving of start and update calls.
C39_StoreMatchesSession ==
    calls = {} =>
        \A id \in Ids :
            (sessions[id] # 0 /\ HasMetadata(store, id))
            => LET pr == prov[sessions[id]] IN
               /\ store[id].webhookUrl = pr.webhookUrl
               /\ IF pr.kind = "meta"
                  THEN store[id].metaConfig = pr.config
                  ELSE ~UsableMeta(store[id].metaConfig)

====
